---- MODULE Spec2Model ----
(***************************************************************************)
(* The game simulation of client/src/components/GameCanvas.tsx (the boss / *)
(* weapon variant): the closure variables of the effect, the entity        *)
(* collections held in refs, the key map, the published React state, and   *)
(* the three callbacks that change them: animate (one frame), handleKeyDown*)
(* and handleKeyUp; and the component around them: the difficulty screen,   *)
(* handleStartGame, handleRestart, the stored high score, the effect with  *)
(* its guards and its cleanup.                                              *)
(*                                                                         *)
(* Lengths are fixed point: one model unit is 0.1 world unit, so the       *)
(* player's speed 0.5 is 5, a bullet's step 1 is 10, the boss's step 0.1   *)
(* is 1 and the enemy speeds 0.2 / 0.3 / 0.4 are 2 / 3 / 4.  Distances are *)
(* compared squared (distanceTo(..) < 5 is Dist2 < 2500).  Every position  *)
(* the code produces from the modelled inputs is a multiple of 0.1; the    *)
(* model adds exactly where IEEE doubles round, so a sum that lands on a   *)
(* threshold (an enemy at exactly z = 50) may cross it one frame earlier   *)
(* in the program than in the model.                                       *)
(***************************************************************************)
EXTENDS Integers, Sequences, FiniteSets, TLC

VARIABLES
  difficulty,      \* let difficulty (fixed at setup from gameState.difficulty)
  score, health, gameOver, level, enemySpawnTimer, weaponType,
  bossActive, bossHealth, bossSpawned,          \* the effect's let variables
  player,          \* playerRef.current.position (z is always 0)
  keys,            \* keysRef.current
  bullets,         \* bulletsRef.current
  enemies,         \* enemiesRef.current
  particles,       \* particlesRef.current
  boss,            \* bossRef.current (live = FALSE models null)
  gs,              \* the published React state gameState
  showDifficultySelect, highScore,       \* the other two React states
  storage,         \* localStorage item 'spaceShooterHighScore' (a string)
  mounted,         \* the component is mounted
  listeners,       \* keydown, keyup and resize listeners are registered
  frameLoop,       \* animate is scheduled with requestAnimationFrame
  nextBulletId, nextEnemyId,   \* identity of the meshes created so far
  spawnLog,        \* history: one entry per execution of spawnBoss
  last,            \* history: what the last callback did and saw
  ticks, keyEvents \* history: frames, and key events and unmounts, since Init

vars == <<difficulty, score, health, gameOver, level, enemySpawnTimer,
          weaponType, bossActive, bossHealth, bossSpawned, player, keys,
          bullets, enemies, particles, boss, gs, showDifficultySelect,
          highScore, storage, mounted, listeners, frameLoop, nextBulletId,
          nextEnemyId, spawnLog, last, ticks, keyEvents>>

\* the variables of the component outside the simulation
life == <<showDifficultySelect, highScore, storage, mounted, listeners,
          frameLoop>>

\* the simulation: the effect's let variables and the refs
sim == <<difficulty, score, health, gameOver, level, enemySpawnTimer,
         weaponType, bossActive, bossHealth, bossSpawned, player, keys,
         bullets, enemies, particles, boss>>

----------------------------------------------------------------------------
(* Bounds of the exploration *)

MaxTicks == 2
MaxKeyEvents == 2
MaxBulletIds == 12

----------------------------------------------------------------------------
(* Program constants, in tenths of a world unit where they are lengths *)

speed == 5
BulletStep == 10
BossStep == 1
BossHitDist == 50
EnemyHitDist == 20
EnemyPlayerDist == 30
BossPlayerDist == 50
BulletFarZ == 1000
EnemyFarZ == 500
PlayerBound == 200
FireZOffset == 20
EnemySpawnZ == -500
BossSpawnZ == -800
BossStartHealth == 100
BossHitDamage == 5
BossKillScore == 500
EnemyKillScore == 10
BossContactDamage == 20
LeakDamage == 5
BossEvery == 500
LevelSpawnStep == 5
maxLifetime == 30
BossVolley == 5

Difficulties == {"easy", "normal", "hard"}

difficultySettings ==
  [easy   |-> [spawnRate |-> 100, enemySpeed |-> 2, enemyDamage |-> 5],
   normal |-> [spawnRate |-> 60,  enemySpeed |-> 3, enemyDamage |-> 10],
   hard   |-> [spawnRate |-> 40,  enemySpeed |-> 4, enemyDamage |-> 15]]

Weapons == {"basic", "rapid", "spread"}

\* The names animate reads from keysRef, and the space key handleKeyDown sets.
KeyNames == {"arrowup", "w", "arrowdown", "s", "arrowleft", "a",
             "arrowright", "d", " "}

\* The values of e.key the model delivers.
KeyInputs == {" ", "w", "W", "s", "a", "ArrowDown"}

\* e.key.toLowerCase() on the delivered keys
toLowerCase(k) ==
  CASE k = "W" -> "w"
    [] k = "ArrowDown" -> "arrowdown"
    [] OTHER -> k

\* Math.random() results the model draws for spawnEnemy: (x, y) of the enemy
SpawnXY == {<<0, 0>>, <<30, 0>>}

----------------------------------------------------------------------------
(* Vectors and sequences *)

NoBoss == [live |-> FALSE, x |-> 0, y |-> 0, z |-> 0]

\* THREE.Vector3.distanceTo, squared
Dist2(a, b) ==
  (a.x - b.x) * (a.x - b.x) + (a.y - b.y) * (a.y - b.y)
    + (a.z - b.z) * (a.z - b.z)

PlayerPos(p) == [x |-> p.x, y |-> p.y, z |-> 0]

\* splice(i, 2): the element at i and the one after it
SpliceTwo(s, i) ==
  IF i >= 1 /\ i <= Len(s)
  THEN SubSeq(s, 1, i - 1) \o SubSeq(s, i + 2, Len(s))
  ELSE s

\* Array.prototype.splice(i, 1) for the 1-based index i: past the end it
\* removes nothing.
Splice(s, i) ==
  IF i >= 1 /\ i <= Len(s)
  THEN SubSeq(s, 1, i - 1) \o SubSeq(s, i + 1, Len(s))
  ELSE s

Max(a, b) == IF a >= b THEN a ELSE b
Min(a, b) == IF a <= b THEN a ELSE b

Ids(s) == {s[i].id : i \in 1..Len(s)}

\* the element of a one-element set (used to evaluate the state a loop
\* iteration leaves before the next iteration starts)
The(S) == CHOOSE r \in S : TRUE

----------------------------------------------------------------------------
(* The stored high score.  A string is the sequence of its decimal digits; *)
(* the empty sequence is the missing item (getItem's null; the code tests  *)
(* `saved ?`, which takes null and the empty string alike).                *)

NoItem == <<>>

\* Number.prototype.toString of a non-negative integer
RECURSIVE toString(_)
toString(n) ==
  IF n < 10 THEN <<n>> ELSE Append(toString(n \div 10), n % 10)

\* parseInt of a non-empty string of digits
RECURSIVE parseInt(_)
parseInt(str) ==
  IF Len(str) = 1 THEN str[1]
  ELSE 10 * parseInt(SubSeq(str, 1, Len(str) - 1)) + str[Len(str)]

\* the initializer of the highScore state
SavedHighScore(saved) == IF saved # NoItem THEN parseInt(saved) ELSE 0

----------------------------------------------------------------------------
(* The published state: setGameState queues updaters, React applies them   *)
(* in order when it renders after the callback; an updater reads the       *)
(* closure variables it names at that time.                                *)

ApplyUpdater(g, u, env) ==
  CASE u = "score" -> [g EXCEPT !.score = env.score]
    [] u = "bossKilled" ->
         [g EXCEPT !.score = env.score, !.level = env.level,
                   !.bossActive = FALSE]
    [] u = "bossHealth" -> [g EXCEPT !.bossHealth = env.bossHealth]
    [] u = "bossContact" ->
         [g EXCEPT !.health = env.health, !.bossActive = FALSE]
    [] u = "health" -> [g EXCEPT !.health = env.health]
    [] u = "gameOver" -> [g EXCEPT !.gameOver = TRUE]
    [] u = "weaponType" -> [g EXCEPT !.weaponType = env.weaponType]
    [] u = "bossSpawned" ->
         [g EXCEPT !.bossActive = TRUE, !.bossHealth = BossStartHealth]

RECURSIVE ApplyUpdaters(_, _, _)
ApplyUpdaters(g, us, env) ==
  IF us = <<>> THEN g
  ELSE ApplyUpdaters(ApplyUpdater(g, Head(us), env), Tail(us), env)

----------------------------------------------------------------------------
(* animate: player movement *)

\* Held reading the arrow key alone
HeldArrowOnly(k, a, b) ==
  k[a]

\* a direction is held when its arrow key or its letter is down
Held(k, a, b) ==
  k[a] \/ k[b]

\* MovePlayer with Math.min alone on each axis: the upper bound is applied,
\* the lower one is not
MovePlayerUpperClampOnly(p, k) ==
  LET y1 == IF Held(k, "arrowup", "w") THEN p.y + speed ELSE p.y
      y2 == IF Held(k, "arrowdown", "s") THEN y1 - speed ELSE y1
      x1 == IF Held(k, "arrowleft", "a") THEN p.x - speed ELSE p.x
      x2 == IF Held(k, "arrowright", "d") THEN x1 + speed ELSE x1
  IN [x |-> Min(PlayerBound, x2), y |-> Min(PlayerBound, y2)]

MovePlayer(p, k) ==
  LET y1 == IF Held(k, "arrowup", "w") THEN p.y + speed ELSE p.y
      y2 == IF Held(k, "arrowdown", "s") THEN y1 - speed ELSE y1
      x1 == IF Held(k, "arrowleft", "a") THEN p.x - speed ELSE p.x
      x2 == IF Held(k, "arrowright", "d") THEN x1 + speed ELSE x1
  IN [x |-> Max(-PlayerBound, Min(PlayerBound, x2)),
      y |-> Max(-PlayerBound, Min(PlayerBound, y2))]

(* animate: particles age by one and are removed at maxLifetime *)
UpdateParticles(ps) ==
  LET aged == [i \in 1..Len(ps) |-> [lifetime |-> ps[i].lifetime + 1]]
  IN SelectSeq(aged, LAMBDA q : q.lifetime < maxLifetime)

NewParticle == [lifetime |-> 0]

----------------------------------------------------------------------------
(* animate: the bullet loop.  st carries the variables the loop changes.   *)

\* the inner loop over the enemies, from the last index down: the index of
\* the first enemy within distance 2 of the bullet, 0 when there is none
RECURSIVE EnemyScan(_, _, _)
EnemyScan(b, es, j) ==
  IF j = 0 THEN 0
  ELSE IF Dist2(b, es[j]) < EnemyHitDist * EnemyHitDist THEN j
  ELSE EnemyScan(b, es, j - 1)

\* BossBranch with the kill test written bossHealth < 0
BossBranchBelowZero(st, i) ==
  LET s2 == [st EXCEPT !.particles = Append(@, NewParticle),
                       !.bullets = Splice(@, i),
                       !.bossHealth = @ - BossHitDamage,
                       !.bossHits = @ + 1]
  IN IF s2.bossHealth < 0
     THEN [s2 EXCEPT !.boss = NoBoss,
                     !.bossActive = FALSE,
                     !.score = @ + BossKillScore,
                     !.level = @ + 1,
                     !.upd = Append(@, "bossKilled"),
                     !.bossKills = @ + 1]
     ELSE [s2 EXCEPT !.upd = Append(@, "bossHealth")]

\* the bullet-boss branch
BossBranch(st, i) ==
  LET s2 == [st EXCEPT !.particles = Append(@, NewParticle),
                       !.bullets = Splice(@, i),
                       !.bossHealth = @ - BossHitDamage,
                       !.bossHits = @ + 1]
  IN IF s2.bossHealth <= 0
     THEN [s2 EXCEPT !.boss = NoBoss,
                     !.bossActive = FALSE,
                     !.score = @ + BossKillScore,
                     !.level = @ + 1,
                     !.upd = Append(@, "bossKilled"),
                     !.bossKills = @ + 1]
     ELSE [s2 EXCEPT !.upd = Append(@, "bossHealth")]

\* EnemyBranch with the far check written z >= 100
EnemyBranchFarInclusive(st, i, b) ==
  LET j == EnemyScan(b, st.enemies, Len(st.enemies))
      s2 == IF j > 0
            THEN [st EXCEPT !.particles = Append(@, NewParticle),
                            !.bullets = Splice(@, i),
                            !.enemies = Splice(@, j),
                            !.score = @ + EnemyKillScore,
                            !.upd = Append(@, "score"),
                            !.enemyKills = @ + 1]
            ELSE st
  IN IF b.z >= BulletFarZ
     THEN [s2 EXCEPT !.bullets = Splice(@, i), !.farSplices = @ + 1]
     ELSE s2

\* the removal of every enemy of es[1..j] within distance 2 of the bullet,
\* from the last index down
RECURSIVE RemoveAllInRange(_, _, _)
RemoveAllInRange(st, b, j) ==
  IF j = 0 THEN st
  ELSE IF Dist2(b, st.enemies[j]) < EnemyHitDist * EnemyHitDist
  THEN RemoveAllInRange([st EXCEPT !.particles = Append(@, NewParticle),
                                   !.enemies = Splice(@, j),
                                   !.score = @ + EnemyKillScore,
                                   !.upd = Append(@, "score"),
                                   !.enemyKills = @ + 1], b, j - 1)
  ELSE RemoveAllInRange(st, b, j - 1)

\* EnemyBranch with the inner loop running on after a hit (no break)
EnemyBranchNoBreak(st, i, b) ==
  LET j == EnemyScan(b, st.enemies, Len(st.enemies))
      s2 == IF j > 0
            THEN [RemoveAllInRange(st, b, Len(st.enemies))
                    EXCEPT !.bullets = Splice(@, i)]
            ELSE st
  IN IF b.z > BulletFarZ
     THEN [s2 EXCEPT !.bullets = Splice(@, i), !.farSplices = @ + 1]
     ELSE s2

\* the bullet-enemy branch and the far check that follows it
EnemyBranch(st, i, b) ==
  LET j == EnemyScan(b, st.enemies, Len(st.enemies))
      s2 == IF j > 0
            THEN [st EXCEPT !.particles = Append(@, NewParticle),
                            !.bullets = Splice(@, i),
                            !.enemies = Splice(@, j),
                            !.score = @ + EnemyKillScore,
                            !.upd = Append(@, "score"),
                            !.enemyKills = @ + 1]
            ELSE st
  IN IF b.z > BulletFarZ
     THEN [s2 EXCEPT !.bullets = Splice(@, i), !.farSplices = @ + 1]
     ELSE s2

\* history: what an iteration of the bullet loop found and what it left
Snapshot(st) ==
  [bullets |-> Ids(st.bullets), enemies |-> Ids(st.enemies),
   score |-> st.score, particles |-> Len(st.particles),
   bossLive |-> st.boss.live, bossHealth |-> st.bossHealth,
   level |-> st.level]

\* BulletIter with the boss branch falling through to the enemy branch (no
\* continue)
BulletIterNoContinue(st, i) ==
  LET b == [st.bullets[i] EXCEPT !.z = @ + BulletStep]
      s1 == [st EXCEPT !.bullets[i] = b,
                       !.bulletLog = Append(@, [bullet |-> b,
                                                boss |-> st.boss,
                                                enemies |-> st.enemies,
                                                found |-> Snapshot(st),
                                                left |-> Snapshot(st)])]
      s2 == IF s1.boss.live /\ Dist2(b, s1.boss) < BossHitDist * BossHitDist
            THEN EnemyBranch(BossBranch(s1, i), i, b)
            ELSE EnemyBranch(s1, i, b)
  IN [s2 EXCEPT !.bulletLog[Len(s2.bulletLog)].left = Snapshot(s2)]

\* one iteration of the bullet loop, at index i
BulletIter(st, i) ==
  LET b == [st.bullets[i] EXCEPT !.z = @ + BulletStep]
      s1 == [st EXCEPT !.bullets[i] = b,
                       !.bulletLog = Append(@, [bullet |-> b,
                                                boss |-> st.boss,
                                                enemies |-> st.enemies,
                                                found |-> Snapshot(st),
                                                left |-> Snapshot(st)])]
      s2 == IF s1.boss.live /\ Dist2(b, s1.boss) < BossHitDist * BossHitDist
            THEN BossBranch(s1, i)
            ELSE EnemyBranch(s1, i, b)
  IN [s2 EXCEPT !.bulletLog[Len(s2.bulletLog)].left = Snapshot(s2)]

RECURSIVE BulletLoop(_, _)
BulletLoop(st, i) ==
  IF i < 1 THEN st
  ELSE The({BulletLoop(s, i - 1) : s \in {BulletIter(st, i)}})

----------------------------------------------------------------------------
(* animate: the boss *)

\* the velocity a boss bullet carries in userData (thousandths), for the
\* angles 2*pi*i/5
BossBulletVelocity(i) ==
  CASE i = 0 -> <<300, 0, 500>>
    [] i = 1 -> <<93, 285, 500>>
    [] i = 2 -> <<-243, 176, 500>>
    [] i = 3 -> <<-243, -176, 500>>
    [] i = 4 -> <<93, -285, 500>>

BossAttack(st) ==
  LET volley == [i \in 1..BossVolley |->
                   [id |-> st.nextBulletId + i - 1,
                    x |-> st.boss.x, y |-> st.boss.y, z |-> st.boss.z,
                    isEnemyBullet |-> TRUE,
                    velocity |-> BossBulletVelocity(i - 1)]]
  IN [st EXCEPT !.bullets = @ \o volley,
                !.nextBulletId = @ + BossVolley,
                !.attacks = @ + 1]

\* history: the health and the flag as each damage event leaves them
Logged(st) ==
  [st EXCEPT !.damage = Append(@, [health |-> st.health,
                                   gameOver |-> st.gameOver])]

\* BossContact that also awards the boss's score, as the kill by a bullet
\* does
BossContactAwardingKill(st, p) ==
  IF Dist2(st.boss, PlayerPos(p)) < BossPlayerDist * BossPlayerDist
  THEN LET s2 == [st EXCEPT !.boss = NoBoss,
                            !.bossActive = FALSE,
                            !.health = @ - BossContactDamage,
                            !.score = @ + BossKillScore,
                            !.upd = Append(@, "bossContact"),
                            !.bossContacts = @ + 1]
           s3 == IF s2.health <= 0
                 THEN [s2 EXCEPT !.gameOver = TRUE,
                                 !.upd = Append(@, "gameOver")]
                 ELSE s2
       IN Logged(s3)
  ELSE st

BossContact(st, p) ==
  IF Dist2(st.boss, PlayerPos(p)) < BossPlayerDist * BossPlayerDist
  THEN LET s2 == [st EXCEPT !.boss = NoBoss,
                            !.bossActive = FALSE,
                            !.health = @ - BossContactDamage,
                            !.upd = Append(@, "bossContact"),
                            !.bossContacts = @ + 1]
           s3 == IF s2.health <= 0
                 THEN [s2 EXCEPT !.gameOver = TRUE,
                                 !.upd = Append(@, "gameOver")]
                 ELSE s2
       IN Logged(s3)
  ELSE st

\* attack is the outcome of Math.random() < 0.02
BossPhase(st, p, attack) ==
  IF st.boss.live
  THEN LET s1 == [st EXCEPT !.boss.z = @ + BossStep]
           s2 == IF attack THEN BossAttack(s1) ELSE s1
       IN BossContact(s2, p)
  ELSE st

----------------------------------------------------------------------------
(* animate: the enemy loop *)

\* Damage with the test written health < 0
DamageBelowZeroOnly(st, d, tag) ==
  LET s2 == [st EXCEPT !.health = @ - d, !.upd = Append(@, "health")]
      s3 == IF tag = "contact"
            THEN [s2 EXCEPT !.contacts = @ + 1]
            ELSE [s2 EXCEPT !.leaks = @ + 1]
      s4 == IF s3.health < 0
            THEN [s3 EXCEPT !.gameOver = TRUE, !.upd = Append(@, "gameOver")]
            ELSE s3
  IN Logged(s4)

Damage(st, d, tag) ==
  LET s2 == [st EXCEPT !.health = @ - d, !.upd = Append(@, "health")]
      s3 == IF tag = "contact"
            THEN [s2 EXCEPT !.contacts = @ + 1]
            ELSE [s2 EXCEPT !.leaks = @ + 1]
      s4 == IF s3.health <= 0
            THEN [s3 EXCEPT !.gameOver = TRUE, !.upd = Append(@, "gameOver")]
            ELSE s3
  IN Logged(s4)

\* EnemyIter with the leak costing the difficulty's enemyDamage
EnemyIterLeakScaled(st, i, p, diff) ==
  LET e == [st.enemies[i] EXCEPT
              !.z = @ + difficultySettings[diff].enemySpeed]
      s1 == [st EXCEPT !.enemies[i] = e]
      s2 == IF Dist2(e, PlayerPos(p)) < EnemyPlayerDist * EnemyPlayerDist
            THEN Damage([s1 EXCEPT !.enemies = Splice(@, i)],
                        difficultySettings[diff].enemyDamage, "contact")
            ELSE s1
  IN IF e.z > EnemyFarZ
     THEN Damage([s2 EXCEPT !.enemies = Splice(@, i)],
                 difficultySettings[diff].enemyDamage, "leak")
     ELSE s2

\* one iteration of the enemy loop, at index i
EnemyIter(st, i, p, diff) ==
  LET e == [st.enemies[i] EXCEPT
              !.z = @ + difficultySettings[diff].enemySpeed]
      s1 == [st EXCEPT !.enemies[i] = e]
      s2 == IF Dist2(e, PlayerPos(p)) < EnemyPlayerDist * EnemyPlayerDist
            THEN Damage([s1 EXCEPT !.enemies = Splice(@, i)],
                        difficultySettings[diff].enemyDamage, "contact")
            ELSE s1
  IN IF e.z > EnemyFarZ
     THEN Damage([s2 EXCEPT !.enemies = Splice(@, i)], LeakDamage, "leak")
     ELSE s2

RECURSIVE EnemyLoop(_, _, _, _)
EnemyLoop(st, i, p, diff) ==
  IF i < 1 THEN st
  ELSE The({EnemyLoop(s, i - 1, p, diff) : s \in {EnemyIter(st, i, p, diff)}})

----------------------------------------------------------------------------
(* animate: spawning *)

spawnEnemy(st, xy) ==
  [st EXCEPT !.enemies = Append(@, [id |-> st.nextEnemyId,
                                    x |-> xy[1], y |-> xy[2],
                                    z |-> EnemySpawnZ]),
             !.nextEnemyId = @ + 1,
             !.enemySpawns = @ + 1]

SpawnThreshold(diff, lvl) ==
  difficultySettings[diff].spawnRate - lvl * LevelSpawnStep

\* SpawnPhase with the test written >=
SpawnPhaseAtThreshold(st, xy, diff) ==
  LET s1 == [st EXCEPT !.enemySpawnTimer = @ + 1]
  IN IF s1.enemySpawnTimer >= SpawnThreshold(diff, s1.level)
     THEN [spawnEnemy(s1, xy) EXCEPT !.enemySpawnTimer = 0]
     ELSE s1

\* the spawn timer (lines 387-391)
SpawnPhase(st, xy, diff) ==
  LET s1 == [st EXCEPT !.enemySpawnTimer = @ + 1]
  IN IF s1.enemySpawnTimer > SpawnThreshold(diff, s1.level)
     THEN [spawnEnemy(s1, xy) EXCEPT !.enemySpawnTimer = 0]
     ELSE s1

spawnBoss(st) ==
  [st EXCEPT !.spawnLog = Append(@, [score |-> st.score,
                                     overLive |-> st.boss.live]),
             !.boss = [live |-> TRUE, x |-> 0, y |-> 0, z |-> BossSpawnZ],
             !.bossActive = TRUE,
             !.bossHealth = BossStartHealth,
             !.upd = Append(@, "bossSpawned"),
             !.bossSpawns = @ + 1]

\* the boss check without the latch
BossDueIgnoringLatch(st) ==
  /\ st.score > 0
  /\ st.score % BossEvery = 0
  /\ ~st.bossActive

\* the boss check without the bossActive flag
BossDueIgnoringActive(st) ==
  /\ st.score > 0
  /\ st.score % BossEvery = 0
  /\ ~st.bossSpawned

\* the condition of the boss check
BossDue(st) ==
  /\ st.score > 0
  /\ st.score % BossEvery = 0
  /\ ~st.bossSpawned
  /\ ~st.bossActive

BossSpawnCheck(st) ==
  LET s0 == [st EXCEPT !.atCheck = [score |-> st.score,
                                    bossActive |-> st.bossActive,
                                    bossSpawned |-> st.bossSpawned]]
      s1 == IF BossDue(s0)
            THEN [spawnBoss(s0) EXCEPT !.bossSpawned = TRUE]
            ELSE s0
  IN IF s1.score % BossEvery # 0
     THEN [s1 EXCEPT !.bossSpawned = FALSE]
     ELSE s1

----------------------------------------------------------------------------
(* The history record of a callback *)

NoCheck == [score |-> 0, bossActive |-> FALSE, bossSpawned |-> FALSE]

NoEvent ==
  [kind |-> "init", key |-> "", bossHits |-> 0, bossKills |-> 0,
   enemyKills |-> 0, farSplices |-> 0, attacks |-> 0, bossContacts |-> 0,
   contacts |-> 0, leaks |-> 0, enemySpawns |-> 0, bossSpawns |-> 0,
   fired |-> 0, wrote |-> FALSE, damage |-> <<>>, bulletLog |-> <<>>,
   atCheck |-> NoCheck]

----------------------------------------------------------------------------
(* animate, one frame *)

Frame(xy, attack) ==
  LET p1 == MovePlayer(player, keys)
      s0 == [bullets |-> bullets, enemies |-> enemies,
             particles |-> UpdateParticles(particles), boss |-> boss,
             score |-> score, health |-> health, gameOver |-> gameOver,
             level |-> level, enemySpawnTimer |-> enemySpawnTimer,
             bossActive |-> bossActive, bossHealth |-> bossHealth,
             bossSpawned |-> bossSpawned, nextBulletId |-> nextBulletId,
             nextEnemyId |-> nextEnemyId, spawnLog |-> spawnLog,
             upd |-> <<>>, bossHits |-> 0, bossKills |-> 0,
             enemyKills |-> 0, farSplices |-> 0, attacks |-> 0,
             bossContacts |-> 0, contacts |-> 0, leaks |-> 0,
             enemySpawns |-> 0, bossSpawns |-> 0, damage |-> <<>>,
             bulletLog |-> <<>>, atCheck |-> NoCheck]
      s1 == BulletLoop(s0, Len(bullets))
      s2 == BossPhase(s1, p1, attack)
      s3 == EnemyLoop(s2, Len(s2.enemies), p1, difficulty)
      s4 == SpawnPhase(s3, xy, difficulty)
  IN [st |-> BossSpawnCheck(s4), player |-> p1]

Tick(xy, attack) ==
  /\ frameLoop
  /\ ticks < MaxTicks
  /\ attack => (boss.live /\ nextBulletId + BossVolley - 1 <= MaxBulletIds)
  /\ ticks' = ticks + 1
  /\ UNCHANGED <<difficulty, weaponType, keys, keyEvents>>
  /\ UNCHANGED life
  /\ IF gameOver
     THEN /\ UNCHANGED <<score, health, gameOver, level, enemySpawnTimer,
                         bossActive, bossHealth, bossSpawned, player,
                         bullets, enemies, particles, boss, gs, nextBulletId,
                         nextEnemyId, spawnLog>>
          /\ last' = [NoEvent EXCEPT !.kind = "tick"]
     ELSE \E r \in {Frame(xy, attack)} : \E st \in {r.st} :
             /\ player' = r.player
             /\ bullets' = st.bullets
             /\ enemies' = st.enemies
             /\ particles' = st.particles
             /\ boss' = st.boss
             /\ score' = st.score
             /\ health' = st.health
             /\ gameOver' = st.gameOver
             /\ level' = st.level
             /\ enemySpawnTimer' = st.enemySpawnTimer
             /\ bossActive' = st.bossActive
             /\ bossHealth' = st.bossHealth
             /\ bossSpawned' = st.bossSpawned
             /\ nextBulletId' = st.nextBulletId
             /\ nextEnemyId' = st.nextEnemyId
             /\ spawnLog' = st.spawnLog
             /\ gs' = IF mounted
                      THEN ApplyUpdaters(gs, st.upd,
                             [score |-> st.score, level |-> st.level,
                              health |-> st.health,
                              bossHealth |-> st.bossHealth,
                              weaponType |-> weaponType])
                      ELSE gs   \* setGameState after unmount does nothing
             /\ last' = [kind |-> "tick", key |-> "",
                         bossHits |-> st.bossHits,
                         bossKills |-> st.bossKills,
                         enemyKills |-> st.enemyKills,
                         farSplices |-> st.farSplices,
                         attacks |-> st.attacks,
                         bossContacts |-> st.bossContacts,
                         contacts |-> st.contacts, leaks |-> st.leaks,
                         enemySpawns |-> st.enemySpawns,
                         bossSpawns |-> st.bossSpawns, fired |-> 0,
                         wrote |-> FALSE,
                         damage |-> st.damage, bulletLog |-> st.bulletLog,
                         atCheck |-> st.atCheck]

----------------------------------------------------------------------------
(* handleKeyDown and handleKeyUp *)

\* VolleyOffsets with the rapid offsets written i * 1 (0 and +1)
VolleyOffsetsUncentred(w) ==
  CASE w = "basic" -> <<0>>
    [] w = "rapid" -> [i \in 1..2 |-> (i - 1) * 10]
    [] w = "spread" -> [i \in 1..3 |-> ((i - 1) - 1) * 15]

\* the fire gate without the gameOver test
CanFireWhenOver(k, over) ==
  k = " "

\* the conditions under which a keydown fires (lines 152 and 154)
CanFire(k, over) ==
  k = " " /\ ~over

\* the x offsets of the volley of a weapon: 0; (i - 0.5) * 1 for i = 0, 1;
\* (i - 1) * 1.5 for i = 0, 1, 2
VolleyOffsets(w) ==
  CASE w = "basic" -> <<0>>
    [] w = "rapid" -> [i \in 1..2 |-> (2 * (i - 1) - 1) * 5]
    [] w = "spread" -> [i \in 1..3 |-> ((i - 1) - 1) * 15]

Fire(p, w, firstId) ==
  LET offs == VolleyOffsets(w)
  IN [i \in 1..Len(offs) |->
        [id |-> firstId + i - 1,
         x |-> p.x + offs[i], y |-> p.y, z |-> 0 + FireZOffset,
         isEnemyBullet |-> FALSE, velocity |-> <<>>]]

\* NextWeapon without the step to spread
NextWeaponTwoWay(w) ==
  IF w = "basic" THEN "rapid" ELSE "basic"

\* the weapon after w in the cycle (line 195)
NextWeapon(w) ==
  IF w = "basic" THEN "rapid" ELSE IF w = "rapid" THEN "spread" ELSE "basic"

KeyDown(k) ==
  LET fires == CanFire(k, gameOver)
      volley == IF fires THEN Fire(player, weaponType, nextBulletId) ELSE <<>>
      cycles == k = "w" \/ k = "W"
      w2 == IF cycles THEN NextWeapon(weaponType) ELSE weaponType
  IN /\ listeners
     /\ keyEvents < MaxKeyEvents
     /\ fires => nextBulletId + Len(volley) - 1 <= MaxBulletIds
     /\ keyEvents' = keyEvents + 1
     /\ keys' = [keys EXCEPT ![toLowerCase(k)] = TRUE]
     /\ bullets' = bullets \o volley
     /\ nextBulletId' = nextBulletId + Len(volley)
     /\ weaponType' = w2
     /\ gs' = IF cycles
              THEN ApplyUpdaters(gs, <<"weaponType">>,
                     [score |-> score, level |-> level, health |-> health,
                      bossHealth |-> bossHealth, weaponType |-> w2])
              ELSE gs
     /\ last' = [NoEvent EXCEPT !.kind = "keydown", !.key = k,
                                !.fired = Len(volley)]
     /\ UNCHANGED <<difficulty, score, health, gameOver, level,
                    enemySpawnTimer, bossActive, bossHealth, bossSpawned,
                    player, enemies, particles, boss, nextEnemyId, spawnLog,
                    ticks>>
     /\ UNCHANGED life

KeyUp(k) ==
  /\ listeners
  /\ keyEvents < MaxKeyEvents
  /\ keys[toLowerCase(k)]
  /\ keyEvents' = keyEvents + 1
  /\ keys' = [keys EXCEPT ![toLowerCase(k)] = FALSE]
  /\ last' = [NoEvent EXCEPT !.kind = "keyup", !.key = k]
  /\ UNCHANGED <<difficulty, score, health, gameOver, level,
                 enemySpawnTimer, weaponType, bossActive, bossHealth,
                 bossSpawned, player, bullets, enemies, particles, boss, gs,
                 nextBulletId, nextEnemyId, spawnLog, ticks>>
  /\ UNCHANGED life

----------------------------------------------------------------------------
(* The component around the simulation *)

\* the two guards at the top of the effect (lines 52 and 54): TRUE when the
\* effect returns before its body
EffectReturns(container, show) == (~container \/ ~show) \/ show

\* React commits a change of showDifficultySelect, a dependency of the
\* effect: the cleanup the previous run returned removes the listeners (it
\* cancels no frame), then the effect runs with the new value.  Its body
\* (lines 56-417) sets up a scene, a player at the origin, fresh let
\* variables, the listeners and the frame loop, and leaves the refs of the
\* collections as they are.
Commit(show) ==
  IF EffectReturns(mounted, show)
  THEN /\ listeners' = FALSE
       /\ UNCHANGED frameLoop
       /\ UNCHANGED sim
  ELSE /\ listeners' = TRUE
       /\ frameLoop' = TRUE
       /\ difficulty' = gs'.difficulty
       /\ score' = 0
       /\ health' = 100
       /\ gameOver' = FALSE
       /\ level' = 1
       /\ enemySpawnTimer' = 0
       /\ weaponType' = "basic"
       /\ bossActive' = FALSE
       /\ bossHealth' = 0
       /\ bossSpawned' = FALSE
       /\ player' = [x |-> 0, y |-> 0]
       /\ UNCHANGED <<keys, bullets, enemies, particles, boss>>

\* the high-score test written score >= highScore
BeatsOrEquals(s, h) ==
  s >= h

\* the test of handleRestart
Beats(s, h) ==
  s > h

\* the Restart button of the game-over panel
handleRestart ==
  /\ mounted
  /\ gs.gameOver
  /\ highScore' = IF Beats(gs.score, highScore) THEN gs.score ELSE highScore
  /\ storage' = IF Beats(gs.score, highScore)
                THEN toString(gs.score) ELSE storage
  /\ showDifficultySelect' = TRUE
  /\ gs' = gs
  /\ IF showDifficultySelect
     THEN UNCHANGED <<listeners, frameLoop>> /\ UNCHANGED sim
     ELSE Commit(TRUE)
  /\ last' = [NoEvent EXCEPT !.kind = "restart",
                             !.wrote = Beats(gs.score, highScore)]
  /\ UNCHANGED <<mounted, nextBulletId, nextEnemyId, spawnLog, ticks,
                 keyEvents>>

\* a button of the difficulty screen
handleStartGame(d) ==
  /\ mounted
  /\ showDifficultySelect
  /\ gs' = [score |-> 0, health |-> 100, gameOver |-> FALSE, level |-> 1,
            weaponType |-> "basic", difficulty |-> d, isPaused |-> FALSE,
            bossActive |-> FALSE, bossHealth |-> 0]
  /\ showDifficultySelect' = FALSE
  /\ Commit(FALSE)
  /\ last' = [NoEvent EXCEPT !.kind = "start"]
  /\ UNCHANGED <<highScore, storage, mounted, nextBulletId, nextEnemyId,
                 spawnLog, ticks, keyEvents>>

\* the hosting view goes away: the cleanup of the last run of the effect
Unmount ==
  /\ mounted
  /\ keyEvents < MaxKeyEvents
  /\ keyEvents' = keyEvents + 1
  /\ mounted' = FALSE
  /\ listeners' = FALSE
  /\ last' = [NoEvent EXCEPT !.kind = "unmount"]
  /\ UNCHANGED <<showDifficultySelect, highScore, storage, frameLoop, gs,
                 nextBulletId, nextEnemyId, spawnLog, ticks>>
  /\ UNCHANGED sim

----------------------------------------------------------------------------
(* The states the exploration starts from.  Fresh(d) is the state after   *)
(* the effect's setup (lines 116-126).  The others are states of a running *)
(* session, each taken from a replay of the callbacks from Fresh under the *)
(* inputs named with it (positions rounded to tenths, mesh identities      *)
(* renumbered from 1).                                                     *)

Entity(i, x, y, z) == [id |-> i, x |-> x, y |-> y, z |-> z]

PlayerBullet(i, x, y, z) ==
  [id |-> i, x |-> x, y |-> y, z |-> z, isEnemyBullet |-> FALSE,
   velocity |-> <<>>]

BossAt(z) == [live |-> TRUE, x |-> 0, y |-> 0, z |-> z]

FirstBoss == <<[score |-> 500, overLive |-> FALSE]>>

Fresh(d) ==
  [difficulty |-> d, score |-> 0, health |-> 100, level |-> 1,
   enemySpawnTimer |-> 0, weaponType |-> "basic", bossActive |-> FALSE,
   bossHealth |-> 0, bossSpawned |-> FALSE, player |-> [x |-> 0, y |-> 0],
   held |-> {}, bullets |-> <<>>, enemies |-> <<>>, boss |-> NoBoss,
   spawnLog |-> <<>>, show |-> FALSE, running |-> TRUE, saved |-> NoItem]

\* the component after its first mount: the difficulty screen is shown, and
\* the effect has returned at its guard (saved is the item a previous visit
\* left)
Mounted(saved) ==
  [Fresh("normal") EXCEPT !.show = TRUE, !.running = FALSE, !.saved = saved]

\* n entities in a column, the first at z0, each step behind the one before
Column(firstId, x, y, z0, step, n) ==
  [i \in 1..n |-> [id |-> firstId + i - 1, x |-> x, y |-> y,
                   z |-> z0 - step * (i - 1)]]

\* the bosses spawned so far, one at each odd multiple of 500
BossesUpTo(n) == [i \in 1..n |-> [score |-> 1000 * i - 500, overLive |-> FALSE]]

\* hard; w pressed and released twice (spread); every enemy came at (3, 0)
\* and was shot from the origin as it passed; after 1930 frames and 49 kills
\* the 50th enemy is in range.
BeforeFiftiethKill ==
  [Fresh("hard") EXCEPT
     !.score = 490, !.enemySpawnTimer = 22, !.weaponType = "spread",
     !.bullets = <<PlayerBullet(1, -15, 0, 740), PlayerBullet(2, 0, 0, 740),
                   PlayerBullet(3, -15, 0, 380), PlayerBullet(4, 0, 0, 380)>>,
     !.enemies = <<Entity(1, 30, 0, 20), Entity(2, 30, 0, -124),
                   Entity(3, 30, 0, -268), Entity(4, 30, 0, -412)>>]

\* the same session 38 frames later: the 50th kill spawned the boss, the
\* boss attacked in three frames and each volley hit the boss itself; the
\* player has not fired since.
BossAtQuarterHealth ==
  [Fresh("hard") EXCEPT
     !.score = 500, !.enemySpawnTimer = 24, !.weaponType = "spread",
     !.bossActive = TRUE, !.bossHealth = 25, !.bossSpawned = TRUE,
     !.bullets = <<PlayerBullet(1, -15, 0, 760), PlayerBullet(2, 0, 0, 760),
                   PlayerBullet(3, -15, 0, 400), PlayerBullet(4, 0, 0, 400)>>,
     !.enemies = <<Entity(1, 30, 0, 28), Entity(2, 30, 0, -116),
                   Entity(3, 30, 0, -260), Entity(4, 30, 0, -404)>>,
     !.boss = BossAt(-763), !.spawnLog = FirstBoss]

\* easy; the same play up to the boss (frame 5061); then the player stays
\* at the origin without firing, the boss never attacks, five enemies leak;
\* after 5810 frames the boss is one step from the player.
BossReachesPlayer ==
  [Fresh("easy") EXCEPT
     !.score = 500, !.health = 75, !.enemySpawnTimer = 50,
     !.weaponType = "spread", !.bossActive = TRUE, !.bossHealth = 100,
     !.bossSpawned = TRUE,
     !.enemies = <<Entity(1, 30, 0, 368), Entity(2, 30, 0, 176),
                   Entity(3, 30, 0, -16), Entity(4, 30, 0, -208),
                   Entity(5, 30, 0, -400)>>,
     !.boss = BossAt(-50), !.spawnLog = FirstBoss]

\* hard; no key is ever pressed and every enemy comes at (0, 0): six have
\* hit the player, after 369 frames the seventh is one step away.
BeforeLastHit ==
  [Fresh("hard") EXCEPT
     !.health = 10, !.enemySpawnTimer = 9,
     !.enemies = <<Entity(1, 0, 0, -32), Entity(2, 0, 0, -176),
                   Entity(3, 0, 0, -320), Entity(4, 0, 0, -464)>>]

\* normal; no key is ever pressed; enemies 1-7, 9 and 10 came at (0, 0) and
\* hit the player, enemy 8 at (19.9, 19.9), enemy 11 at (2.1, 2.1), the
\* later ones at (-19.9, -19.9); after 781 frames enemy 8 is one step from
\* the far bound and enemy 11 one step from the player.
BeforeContactAndLeak ==
  [Fresh("normal") EXCEPT
     !.health = 10, !.enemySpawnTimer = 53,
     !.enemies = <<Entity(1, 199, 199, 499), Entity(2, 21, 21, -5),
                   Entity(3, -199, -199, -173),
                   Entity(4, -199, -199, -341)>>]

\* easy; d and s are held from before the first frame; after 39 frames
NearCorner ==
  [Fresh("easy") EXCEPT
     !.enemySpawnTimer = 39, !.player = [x |-> 195, y |-> -195],
     !.held = {"d", "s"}]

\* easy; space pressed and released before the first frame; after 97
\* frames (the first enemy came at (10, -10) in frame 96)
BulletNearFarBound ==
  [Fresh("easy") EXCEPT
     !.enemySpawnTimer = 1,
     !.bullets = <<PlayerBullet(1, 0, 0, 990)>>,
     !.enemies = <<Entity(1, 100, -100, -498)>>]

\* hard; spread; the player moved to (7, 0) at the start and shot every
\* enemy, which all came at (10, 0); the boss of score 500 never attacked
\* and passed the player out of reach; after 3730 frames and 99 kills the
\* boss is at z = 99.9 and the 100th enemy is in range.
BossFarBehind ==
  [Fresh("hard") EXCEPT
     !.score = 990, !.enemySpawnTimer = 22, !.weaponType = "spread",
     !.bossActive = TRUE, !.bossHealth = 100, !.bossSpawned = FALSE,
     !.player = [x |-> 70, y |-> 0],
     !.bullets = <<PlayerBullet(1, 55, 0, 740), PlayerBullet(2, 70, 0, 740),
                   PlayerBullet(3, 55, 0, 380), PlayerBullet(4, 70, 0, 380)>>,
     !.enemies = <<Entity(1, 100, 0, 20), Entity(2, 100, 0, -124),
                   Entity(3, 100, 0, -268), Entity(4, 100, 0, -412)>>,
     !.boss = BossAt(999), !.spawnLog = FirstBoss]

\* hard; spread; three enemies that came at (3, 0) were shot from the
\* origin, then the player stopped firing and every enemy came at (0, 0):
\* six have hit the player, after 549 frames the seventh is one step away.
\* saved is the item a previous visit left.
ScoredBeforeLastHit(saved) ==
  [BeforeLastHit EXCEPT !.score = 30, !.weaponType = "spread",
                        !.saved = saved]

\* hard; spread; every enemy came at (3, 0) and was shot from the origin,
\* each boss attacked in four frames and was killed by its own volleys; at
\* score 6100 (level 7) the player stopped firing; after 7520 frames d was
\* held for two frames (two enemies hit the player on its way), and after
\* 7522 frames two unshot enemies are ahead of the player at z = 4.8 and 2.4.
TwoEnemiesAhead ==
  [Fresh("hard") EXCEPT
     !.score = 6100, !.health = 85, !.level = 7, !.enemySpawnTimer = 5,
     !.weaponType = "spread", !.player = [x |-> 10, y |-> 0],
     !.enemies = <<Entity(1, 30, 0, 384), Entity(2, 30, 0, 340)>>
                   \o Column(3, 30, 0, 312, 24, 13)
                   \o Column(16, 30, 0, -24, 24, 20),
     !.spawnLog = BossesUpTo(6)]

\* the same play up to score 6500 (level 7), where the seventh boss appeared
\* and the player stopped firing; the boss attacked in four frames; after
\* 7771 frames its fourth volley is in flight.
BeforeLevelEight ==
  [Fresh("hard") EXCEPT
     !.score = 6500, !.level = 7, !.enemySpawnTimer = 2,
     !.weaponType = "spread", !.bossActive = TRUE, !.bossHealth = 25,
     !.bossSpawned = TRUE,
     !.bullets = [i \in 1..BossVolley |->
                    [id |-> i, x |-> 0, y |-> 0, z |-> -701,
                     isEnemyBullet |-> TRUE,
                     velocity |-> BossBulletVelocity(i - 1)]],
     !.enemies = Column(1, 30, 0, 396, 24, 38),
     !.boss = BossAt(-701), !.spawnLog = BossesUpTo(7)]

\* hard; spread; d held for the first 12 frames (player at x = 6); every
\* enemy came at (3, 0) and was shot as it passed, until the boss of score
\* 500, which never attacked, was within 10 of z = 0; after 2758 frames the
\* boss is beside the player, out of its reach, and an unshot enemy is at
\* z = 2.
BossBesidePlayer ==
  [Fresh("hard") EXCEPT
     !.score = 690, !.enemySpawnTimer = 22, !.weaponType = "spread",
     !.bossActive = TRUE, !.bossHealth = 100, !.bossSpawned = FALSE,
     !.player = [x |-> 60, y |-> 0],
     !.enemies = Column(1, 30, 0, 452, 144, 7),
     !.boss = BossAt(27), !.spawnLog = FirstBoss]

\* the items a previous visit can have left
SavedItems == {NoItem, toString(30), toString(500)}

Sessions ==
  {Fresh(d) : d \in Difficulties} \cup
  {BeforeFiftiethKill, BossAtQuarterHealth, BossReachesPlayer,
   BeforeLastHit, BeforeContactAndLeak, NearCorner, BulletNearFarBound,
   BossFarBehind, TwoEnemiesAhead, BeforeLevelEight, BossBesidePlayer} \cup
  {ScoredBeforeLastHit(saved) : saved \in SavedItems} \cup
  {Mounted(saved) : saved \in SavedItems}

\* in every running one the published state equals the closure variables
\* (each was published when it last changed), the game is not over and no
\* particle is left; in Mounted the let variables do not exist yet (they
\* stand at their initial values) and the published difficulty is 'normal'
StartFrom(c) ==
  /\ difficulty = c.difficulty
  /\ score = c.score
  /\ health = c.health
  /\ gameOver = FALSE
  /\ level = c.level
  /\ enemySpawnTimer = c.enemySpawnTimer
  /\ weaponType = c.weaponType
  /\ bossActive = c.bossActive
  /\ bossHealth = c.bossHealth
  /\ bossSpawned = c.bossSpawned
  /\ player = c.player
  /\ keys = [k \in KeyNames |-> k \in c.held]
  /\ bullets = c.bullets
  /\ enemies = c.enemies
  /\ particles = <<>>
  /\ boss = c.boss
  /\ gs = [score |-> c.score, health |-> c.health, gameOver |-> FALSE,
           level |-> c.level, weaponType |-> c.weaponType,
           difficulty |-> c.difficulty, isPaused |-> FALSE,
           bossActive |-> c.bossActive, bossHealth |-> c.bossHealth]
  /\ showDifficultySelect = c.show
  /\ storage = c.saved
  /\ highScore = SavedHighScore(c.saved)
  /\ mounted = TRUE
  /\ listeners = c.running
  /\ frameLoop = c.running
  /\ nextBulletId = Len(c.bullets) + 1
  /\ nextEnemyId = Len(c.enemies) + 1
  /\ spawnLog = c.spawnLog
  /\ last = NoEvent
  /\ ticks = 0
  /\ keyEvents = 0

Init == \E c \in Sessions : StartFrom(c)

Next ==
  \/ \E xy \in SpawnXY, attack \in BOOLEAN : Tick(xy, attack)
  \/ \E k \in KeyInputs : KeyDown(k)
  \/ \E k \in KeyInputs : KeyUp(k)
  \/ \E d \in Difficulties : handleStartGame(d)
  \/ handleRestart
  \/ Unmount

Spec == Init /\ [][Next]_vars

----------------------------------------------------------------------------
(* Properties *)

IsTick == last.kind = "tick"

\* C1: the score never decreases; a frame changes it by exactly 10 for
\* each enemy a bullet removed and 500 for each boss a bullet killed, and
\* nothing else (contact, leak, boss contact, a key event) changes it.
C1_ScoreOnlyByKills ==
  [][/\ score' >= score
     /\ score' - score = 10 * last'.enemyKills + 500 * last'.bossKills
     /\ last'.kind # "tick" => score' = score]_vars

\* a frame in which one bullet killed an enemy and another killed the boss
C1_Witness ==
  /\ IsTick
  /\ last.enemyKills = 1
  /\ last.bossKills = 1
  /\ score = 1010

\* C2: gameOver is true exactly when health <= 0, after every damage event
\* and in every state between callbacks, in the closure variables and in
\* the published state, and no callback sets it back.
C2_GameOverIffDead ==
  /\ [](gameOver <=> health <= 0)
  /\ [](gs.gameOver <=> gs.health <= 0)
  /\ [][/\ \A i \in 1..Len(last'.damage) :
             last'.damage[i].gameOver <=> last'.damage[i].health <= 0
        /\ gameOver => gameOver']_vars

\* a frame with two damage events, the first of which ended the game
C2_Witness ==
  /\ IsTick
  /\ gameOver
  /\ Len(last.damage) = 2
  /\ last.damage[1].gameOver

\* C3 (as claimed): health, stored and published, stays in 0..100; a damage
\* event that would take it below 0 leaves it at 0.
C3_HealthInRange ==
  /\ health \in 0..100
  /\ gs.health \in 0..100

\* C4: after every frame the player is within [-20, 20] on x and y; a
\* frame moves the player by 0.5 per held direction on its axis, opposite
\* directions cancelling, then clamps; nothing else moves the player.
Pressed(a, b) == IF keys[a] \/ keys[b] THEN 1 ELSE 0

Clamped(v) == IF v > 200 THEN 200 ELSE IF v < -200 THEN -200 ELSE v

C4_PlayerInBounds ==
  [][/\ player'.x \in -200..200
     /\ player'.y \in -200..200
     /\ (last'.kind = "tick" /\ ~gameOver) =>
          /\ player'.x = Clamped(player.x + 5 * (Pressed("arrowright", "d")
                                                 - Pressed("arrowleft", "a")))
          /\ player'.y = Clamped(player.y + 5 * (Pressed("arrowup", "w")
                                                 - Pressed("arrowdown", "s")))
     /\ (last'.kind # "tick" \/ gameOver) => player' = player]_vars

\* a frame at the corner with right, down and left held: x is held by the
\* cancelling pair, y by the clamp
C4_Witness ==
  /\ IsTick
  /\ player = [x |-> 200, y |-> -200]
  /\ keys["d"] /\ keys["a"] /\ keys["s"]
  /\ ticks >= 2

\* C5: spawnBoss runs only when, at the boss check, the score is a positive
\* multiple of 500, no boss is active and the latch is clear; and no two
\* executions of spawnBoss happen at the same score.
C5_BossSpawnGuard ==
  [][/\ last'.bossSpawns > 0 =>
          /\ last'.bossSpawns = 1
          /\ last'.atCheck.score > 0
          /\ last'.atCheck.score % 500 = 0
          /\ ~last'.atCheck.bossActive
          /\ ~last'.atCheck.bossSpawned
          /\ last'.atCheck.score = score'
     /\ \A i, j \in 1..Len(spawnLog') :
          i # j => spawnLog'[i].score # spawnLog'[j].score]_vars

\* the boss of score 500 was removed by contact in an earlier frame and the
\* check has run again at the same score
C5_Witness ==
  /\ IsTick
  /\ score = 500
  /\ ~boss.live
  /\ Len(spawnLog) = 1
  /\ last.bossContacts = 0
  /\ last.bossKills = 0
  /\ last.atCheck.score = 500
  /\ health = 55

\* C6 (as claimed): a frame that takes the score to a new positive multiple
\* of 500 with no boss active at the boss check spawns a boss.
C6_SpawnAtEveryMultiple ==
  [][(/\ score' # score
      /\ score' > 0
      /\ score' % 500 = 0
      /\ ~last'.atCheck.bossActive) => last'.bossSpawns = 1]_vars

\* C7: the flag bossActive is true exactly when a boss instance exists, and
\* so is the published flag as the callbacks of a session leave it; and
\* spawnBoss never ran while an instance was live.
C7_OneBoss ==
  /\ bossActive <=> boss.live
  /\ (mounted /\ last.kind \in {"init", "tick", "keydown", "keyup"}) =>
       (gs.bossActive <=> boss.live)
  /\ \A i \in 1..Len(spawnLog) : ~spawnLog[i].overLive

\* the score reached a multiple of 500 with the latch clear while the
\* first boss was still live, and the check spawned nothing
C7_Witness ==
  /\ IsTick
  /\ last.enemyKills = 1
  /\ score = 1000
  /\ boss.live
  /\ ~last.atCheck.bossSpawned
  /\ Len(spawnLog) = 1

\* C8: a frame removes a bullet exactly when, after its advance, it is
\* within 5 of the live boss or within 2 of a live enemy or beyond z = 100;
\* every bullet present at the start is processed once, and a bullet that
\* stays keeps its advanced position.
NearLiveBoss(e) ==
  e.boss.live /\ Dist2(e.bullet, e.boss) < 5 * 5 * 100

NearLiveEnemy(e) ==
  \E j \in 1..Len(e.enemies) : Dist2(e.bullet, e.enemies[j]) < 2 * 2 * 100

C8_BulletRemoval ==
  [][(last'.kind = "tick" /\ ~gameOver) =>
       LET log == last'.bulletLog
       IN /\ Len(log) = Len(bullets)
          /\ {log[i].bullet.id : i \in 1..Len(log)} = Ids(bullets)
          /\ \A i \in 1..Len(log) :
               LET e == log[i]
                   gone == NearLiveBoss(e) \/ NearLiveEnemy(e)
                             \/ e.bullet.z > 1000
               IN /\ gone <=> e.bullet.id \notin Ids(bullets')
                  /\ ~gone => \E k \in 1..Len(bullets') :
                                 bullets'[k] = e.bullet
          /\ \A k \in 1..Len(bullets) :
               \E i \in 1..Len(log) :
                 /\ log[i].bullet.id = bullets[k].id
                 /\ log[i].bullet = [bullets[k] EXCEPT !.z = @ + 10]]_vars

\* a frame that removed one bullet beyond z = 100 and kept another
C8_Witness ==
  /\ IsTick
  /\ last.farSplices = 1
  /\ Len(bullets) >= 1
  /\ \E i \in 1..Len(last.bulletLog) : last.bulletLog[i].bullet.z = 1010

\* C9 (as claimed): at the end of every frame every bullet has z <= 100.
C9_NoBulletBeyondFar ==
  IsTick => \A i \in 1..Len(bullets) : bullets[i].z <= 1000

\* C10: a fire event while playing appends exactly the volley of the
\* current weapon at the player's position with z + 2 (basic: x offset 0;
\* rapid: -0.5 and +0.5; spread: -1.5, 0 and +1.5) and changes nothing else.
ClaimedOffsets(w) ==
  IF w = "basic" THEN <<0>>
  ELSE IF w = "rapid" THEN <<-5, 5>>
  ELSE <<-15, 0, 15>>

C10_FireVolley ==
  [][(last'.kind = "keydown" /\ last'.key = " " /\ ~gameOver) =>
       LET offs == ClaimedOffsets(weaponType)
           n == Len(bullets)
       IN /\ Len(bullets') = n + Len(offs)
          /\ SubSeq(bullets', 1, n) = bullets
          /\ \A i \in 1..Len(offs) :
               /\ bullets'[n + i].x = player.x + offs[i]
               /\ bullets'[n + i].y = player.y
               /\ bullets'[n + i].z = 20
               /\ ~bullets'[n + i].isEnemyBullet
               /\ bullets'[n + i].id \notin Ids(bullets)
          /\ UNCHANGED <<score, health, level, weaponType, enemies, boss,
                         bossActive, bossHealth, gameOver, player,
                         particles, enemySpawnTimer, gs>>]_vars

\* the rapid weapon fired from a fresh session
C10_Witness ==
  /\ last.kind = "keydown"
  /\ last.key = " "
  /\ weaponType = "rapid"
  /\ Len(bullets) = 2
  /\ bullets[1].x = -5 /\ bullets[2].x = 5

\* C11: a bullet that, after its advance, is not within 5 of the live boss
\* and is within 2 of an enemy removes exactly itself and exactly one enemy,
\* one of those within 2 of it; that iteration adds exactly 10 to the score
\* and creates exactly one particle, also when several enemies are within 2.
InRange(e) ==
  {e.enemies[j].id : j \in {k \in 1..Len(e.enemies) :
                              Dist2(e.bullet, e.enemies[k]) < 2 * 2 * 100}}

C11_OneEnemyPerBullet ==
  [][(last'.kind = "tick" /\ ~gameOver) =>
       \A i \in 1..Len(last'.bulletLog) :
         LET e == last'.bulletLog[i]
             killed == e.found.enemies \ e.left.enemies
         IN (~NearLiveBoss(e) /\ InRange(e) # {}) =>
              /\ e.found.bullets \ e.left.bullets = {e.bullet.id}
              /\ e.left.bullets \subseteq e.found.bullets
              /\ Cardinality(killed) = 1
              /\ killed \subseteq InRange(e)
              /\ e.left.enemies \subseteq e.found.enemies
              /\ e.left.score = e.found.score + 10
              /\ e.left.particles = e.found.particles + 1
              /\ e.bullet.id \notin Ids(bullets')
              /\ killed \cap Ids(enemies') = {}]_vars

\* a frame in which a bullet had two enemies within 2 of it and removed one
C11_Witness ==
  /\ IsTick
  /\ last.enemyKills = 1
  /\ \E i \in 1..Len(last.bulletLog) :
       LET e == last.bulletLog[i]
       IN /\ ~NearLiveBoss(e)
          /\ Cardinality(InRange(e)) = 2
          /\ Cardinality(e.found.enemies \ e.left.enemies) = 1

\* C12: in a frame, every enemy the bullets left that, after its advance,
\* is within 3 of the player is removed and costs the difficulty's
\* enemyDamage (5, 10, 15); every other one beyond z = 50 is removed and
\* costs 5; a boss the bullets left that, after its advance, is within 5 of
\* the player is removed and costs 20 and adds nothing to score or level;
\* no other enemy is removed by the enemy loop and health changes by nothing
\* else.
ClaimedDamage(d) == IF d = "easy" THEN 5 ELSE IF d = "normal" THEN 10 ELSE 15

\* the enemies the bullet loop of the frame left
LeftByBullets(log, es) ==
  IF log = <<>> THEN Ids(es) ELSE log[Len(log)].left.enemies

\* the enemies of es the bullets left, after their advance
Advanced(es, left, d) ==
  {[es[i] EXCEPT !.z = @ + difficultySettings[d].enemySpeed] :
     i \in {k \in 1..Len(es) : es[k].id \in left}}

C12_DamageAmounts ==
  [][(last'.kind = "tick" /\ ~gameOver) =>
       \A adv \in {Advanced(enemies,
                             LeftByBullets(last'.bulletLog, enemies),
                             difficulty)} :
       \A hit \in {{e \in adv :
                       Dist2(e, PlayerPos(player')) < 3 * 3 * 100}} :
       \A leaked \in {{e \in adv \ hit : e.z > 500}} :
       \A bossHit \in {/\ boss.live
                        /\ last'.bossKills = 0
                        /\ Dist2([boss EXCEPT !.z = @ + 1],
                                 PlayerPos(player')) < 5 * 5 * 100} :
          /\ health' = health - ClaimedDamage(difficulty) * Cardinality(hit)
                               - 5 * Cardinality(leaked)
                               - 20 * (IF bossHit THEN 1 ELSE 0)
          /\ \A e \in adv :
               (e \in hit \cup leaked) <=> e.id \notin Ids(enemies')
          /\ last'.contacts = Cardinality(hit)
          /\ last'.leaks = Cardinality(leaked)
          /\ bossHit <=> last'.bossContacts = 1
          /\ bossHit => /\ ~boss'.live
                        /\ score' = score + 10 * last'.enemyKills
                        /\ level' = level
          /\ Len(last'.damage) = Cardinality(hit) + Cardinality(leaked)
                                   + (IF bossHit THEN 1 ELSE 0)]_vars

\* a frame on normal in which one enemy reached the player and another
\* passed z = 50: 10 and 5
C12_Witness ==
  /\ IsTick
  /\ difficulty = "normal"
  /\ last.contacts = 1
  /\ last.leaks = 1
  /\ health = -5
  /\ Len(enemies) = 2

\* C13 (as claimed): a difficulty choice publishes the reset state (score 0,
\* health 100, level 1, weapon basic, no boss, not over) and starts the
\* simulation: the key listeners are registered and the frame loop runs on
\* fresh let variables.
C13_StartRunsSimulation ==
  [][last'.kind = "start" =>
       /\ gs'.score = 0 /\ gs'.health = 100 /\ gs'.level = 1
       /\ gs'.weaponType = "basic" /\ ~gs'.bossActive /\ ~gs'.gameOver
       /\ ~showDifficultySelect'
       /\ listeners'
       /\ frameLoop'
       /\ score' = 0 /\ health' = 100 /\ ~gameOver']_vars

\* C14: once gameOver is true, a frame or a key event (a fire event among
\* them) leaves score, health, level, the spawn timer, the boss and its
\* health, the player and the bullets, enemies and particles unchanged, and
\* gameOver stays true.
C14_FrozenWhenOver ==
  [][(gameOver /\ last'.kind \in {"tick", "keydown", "keyup"}) =>
       /\ UNCHANGED <<score, health, level, enemySpawnTimer, boss,
                      bossActive, bossHealth, player, bullets, enemies,
                      particles>>
       /\ gameOver'
       /\ last'.fired = 0]_vars

\* the game ended in the first frame; a second frame and then a fire event
\* followed, with enemies still in the collection
C14_Witness ==
  /\ gameOver
  /\ ticks = 2
  /\ last.kind = "keydown"
  /\ last.key = " "
  /\ last.fired = 0
  /\ bullets = <<>>
  /\ Len(enemies) >= 3

\* C15 (as claimed): after a difficulty choice, the first one or one that
\* follows a restart, the bullet, enemy and particle collections are empty
\* and no boss exists.
C15_RestartClearsEntities ==
  [][last'.kind = "start" =>
       /\ bullets' = <<>>
       /\ enemies' = <<>>
       /\ particles' = <<>>
       /\ ~boss'.live]_vars

\* C16: a restart makes the high score, in the component and in the stored
\* item, the larger of the previous one and the final score; it writes the
\* item exactly when the final score is strictly greater; nothing else
\* changes the high score and it never decreases; the difficulty choice
\* that follows publishes score 0, health 100, level 1.
C16_HighScoreOnRestart ==
  [][/\ last'.kind = "restart" =>
          /\ highScore' = Max(highScore, gs.score)
          /\ SavedHighScore(storage') = Max(SavedHighScore(storage), gs.score)
          /\ last'.wrote <=> gs.score > SavedHighScore(storage)
          /\ ~last'.wrote => storage' = storage
          /\ showDifficultySelect'
     /\ last'.kind # "restart" => UNCHANGED <<highScore, storage>>
     /\ highScore' >= highScore
     /\ SavedHighScore(storage') = highScore'
     /\ last'.kind = "start" =>
          gs'.score = 0 /\ gs'.health = 100 /\ gs'.level = 1]_vars

\* a session that ended with score 30 over an empty store was restarted:
\* 30 was written
C16_Witness ==
  /\ last.kind = "restart"
  /\ last.wrote
  /\ gs.gameOver
  /\ gs.score = 30
  /\ highScore = 30
  /\ storage = toString(30)
  /\ showDifficultySelect

\* C17 (as claimed): the cleanup releases the key listeners and the frame
\* callback; once the view is unmounted no frame runs and nothing changes
\* the state of the simulation.
C17_UnmountStopsLoop ==
  [][~mounted =>
       /\ ~listeners
       /\ last'.kind # "tick"
       /\ UNCHANGED sim]_vars

\* C18 (as claimed): a keydown of the fire key that arrives while the key
\* is still held (no keyup since the previous keydown) creates no bullet.
C18_FireOncePerPress ==
  [][(last'.kind = "keydown" /\ last'.key = " " /\ keys[" "]) =>
       (last'.fired = 0 /\ bullets' = bullets)]_vars

\* C19: a cycle input (keydown of w or W) takes weaponType, stored and
\* published, one step along basic -> rapid -> spread -> basic and creates
\* no bullet; three steps return to the start from every weapon; no frame
\* and no other key event, a fire event among them, changes weaponType.
ClaimedNext(w) ==
  CASE w = "basic" -> "rapid"
    [] w = "rapid" -> "spread"
    [] w = "spread" -> "basic"

C19_WeaponCycle ==
  [][/\ (last'.kind = "keydown" /\ last'.key \in {"w", "W"}) =>
          /\ weaponType' = ClaimedNext(weaponType)
          /\ gs'.weaponType = weaponType'
          /\ bullets' = bullets
          /\ last'.fired = 0
          /\ NextWeapon(NextWeapon(weaponType')) = weaponType
     /\ (last'.kind \in {"tick", "keydown", "keyup"}
           /\ last'.key \notin {"w", "W"}) =>
          /\ weaponType' = weaponType
          /\ gs'.weaponType = gs.weaponType
     /\ \A w \in Weapons :
          NextWeapon(NextWeapon(NextWeapon(w))) = w]_vars

\* the step that closes the cycle: W pressed with the spread weapon, after
\* a fire event that left the weapon alone
C19_Witness ==
  /\ last.kind = "keydown"
  /\ last.key = "W"
  /\ keyEvents = 2
  /\ weaponType = "basic"
  /\ gs.weaponType = "basic"
  /\ Len(bullets) = 3
  /\ score = 30

\* C20: a frame while playing adds 1 to the spawn timer; exactly when the
\* result exceeds spawnRate - 5 * level (spawnRate 100, 60, 40; the level
\* as the frame's bullets left it) it spawns one enemy, at z = -50 with x
\* and y in [-20, 20], appended to the collection, and resets the timer to
\* 0; a frame spawns at most one enemy, and one in every frame when the
\* threshold is not positive; so 0 <= timer <= max(0, threshold) after
\* every step.
ClaimedSpawnRate(d) ==
  IF d = "easy" THEN 100 ELSE IF d = "normal" THEN 60 ELSE 40

C20_SpawnCadence ==
  [][/\ (last'.kind = "tick" /\ ~gameOver) =>
          \A thr \in {ClaimedSpawnRate(difficulty) - 5 * level'} :
            /\ last'.enemySpawns \in {0, 1}
            /\ last'.enemySpawns = 1 <=> enemySpawnTimer + 1 > thr
            /\ enemySpawnTimer' = IF last'.enemySpawns = 1 THEN 0
                                   ELSE enemySpawnTimer + 1
            /\ thr <= 0 => last'.enemySpawns = 1
            /\ nextEnemyId' = nextEnemyId + last'.enemySpawns
            /\ last'.enemySpawns = 1 =>
                 \E e \in {enemies'[Len(enemies')]} :
                   /\ e.id = nextEnemyId
                   /\ e.id \notin Ids(enemies)
                   /\ e.z = -500
                   /\ e.x \in -200..200
                   /\ e.y \in -200..200
            /\ last'.enemySpawns = 0 => Ids(enemies') \subseteq Ids(enemies)
     /\ (last'.kind # "tick" \/ gameOver) =>
          UNCHANGED <<enemySpawnTimer, nextEnemyId>>
     /\ enemySpawnTimer' >= 0
     /\ enemySpawnTimer' <=
          Max(0, ClaimedSpawnRate(difficulty') - 5 * level')]_vars

\* hard at level 8, where the threshold is 0: the frame that killed the
\* boss spawned an enemy and so did the next one
C20_Witness ==
  /\ IsTick
  /\ difficulty = "hard"
  /\ level = 8
  /\ ticks = 2
  /\ last.enemySpawns = 1
  /\ last.bossKills = 0
  /\ enemySpawnTimer = 0
  /\ nextEnemyId = 41

\* C21: a keydown sets the flag of its key (lower-cased) and a keyup clears
\* it, neither moves the player, and nothing else changes a flag; a frame
\* while playing reads the flags as the last key events left them: the
\* player moves 0.5 in every held direction, then is clamped.
Moved(p, k) ==
  [x |-> Clamped(p.x + (IF k["arrowright"] \/ k["d"] THEN 5 ELSE 0)
                     - (IF k["arrowleft"] \/ k["a"] THEN 5 ELSE 0)),
   y |-> Clamped(p.y + (IF k["arrowup"] \/ k["w"] THEN 5 ELSE 0)
                     - (IF k["arrowdown"] \/ k["s"] THEN 5 ELSE 0))]

C21_FlagSeenByNextFrame ==
  [][/\ last'.kind = "keydown" =>
          /\ keys' = [keys EXCEPT ![toLowerCase(last'.key)] = TRUE]
          /\ player' = player
     /\ last'.kind = "keyup" =>
          /\ keys' = [keys EXCEPT ![toLowerCase(last'.key)] = FALSE]
          /\ player' = player
     /\ last'.kind \notin {"keydown", "keyup"} => keys' = keys
     /\ (last'.kind = "tick" /\ ~gameOver) => player' = Moved(player, keys)
     /\ last'.kind # "tick" => player' = player]_vars

\* s was pressed, a frame ran, a was pressed, a second frame ran: the
\* first frame moved down, the second down and left
C21_Witness ==
  /\ IsTick
  /\ ticks = 2
  /\ keyEvents = 2
  /\ keys["a"] /\ keys["s"]
  /\ player = [x |-> -5, y |-> -10]

\* C22: a bullet that, after its advance, is within 5 of the live boss is
\* consumed by the boss branch alone: it is removed, the boss loses 5, one
\* particle is created, and no enemy is removed and no 10 added by that
\* bullet, also when an enemy is within 2 of it.
C22_BossBeforeEnemies ==
  [][(last'.kind = "tick" /\ ~gameOver) =>
       \A i \in 1..Len(last'.bulletLog) :
         \A e \in {last'.bulletLog[i]} :
           NearLiveBoss(e) =>
             /\ e.found.bullets \ e.left.bullets = {e.bullet.id}
             /\ e.left.bullets \subseteq e.found.bullets
             /\ e.left.bossHealth = e.found.bossHealth - 5
             /\ e.left.particles = e.found.particles + 1
             /\ e.left.enemies = e.found.enemies
             /\ e.left.score \in {e.found.score, e.found.score + 500}]_vars

\* a frame in which a bullet was within 5 of the boss and within 2 of an
\* enemy: the boss was hit and the enemy is still there
C22_Witness ==
  /\ IsTick
  /\ last.bossHits = 1
  /\ last.enemyKills = 0
  /\ bossHealth = 95
  /\ score = 690
  /\ \E i \in 1..Len(last.bulletLog) :
       /\ NearLiveBoss(last.bulletLog[i])
       /\ InRange(last.bulletLog[i]) # {}
       /\ InRange(last.bulletLog[i]) \subseteq Ids(enemies)

\* C23: spawnBoss sets the boss's health to 100; every bullet hit takes
\* exactly 5; a live boss has a health that is a positive multiple of 5 up
\* to 100, and the health is always within 0..100; the hit that takes the
\* health to 0 or below, and no other, removes the boss and adds exactly 1
\* to the level; the level is at least 1, never decreases and changes on
\* nothing else.
C23_BossHealthAndLevel ==
  [][/\ bossHealth' \in 0..100
     /\ boss'.live => bossHealth' \in {5 * k : k \in 1..20}
     /\ level' >= 1
     /\ level' >= level
     /\ (last'.kind = "tick" /\ ~gameOver) =>
          /\ \A i \in 1..Len(last'.bulletLog) :
               \A e \in {last'.bulletLog[i]} :
                 IF NearLiveBoss(e)
                 THEN /\ e.left.bossHealth = e.found.bossHealth - 5
                      /\ e.left.bossLive <=> e.left.bossHealth > 0
                      /\ e.left.level = e.found.level
                           + (IF e.left.bossHealth <= 0 THEN 1 ELSE 0)
                 ELSE /\ e.left.bossHealth = e.found.bossHealth
                      /\ e.left.bossLive = e.found.bossLive
                      /\ e.left.level = e.found.level
          /\ level' = level + last'.bossKills
          /\ last'.bossKills \in {0, 1}
          /\ bossHealth' = IF last'.bossSpawns = 1 THEN 100
                            ELSE bossHealth - 5 * last'.bossHits
     /\ (last'.kind # "tick" \/ gameOver) =>
          UNCHANGED <<level, bossHealth>>]_vars

\* a frame in which five bullets hit a boss of health 25: the fifth took
\* the health to 0, removed the boss and raised the level from 1 to 2
C23_Witness ==
  /\ IsTick
  /\ last.bossHits = 5
  /\ last.bossKills = 1
  /\ bossHealth = 0
  /\ ~boss.live
  /\ level = 2
  /\ last.enemyKills = 0

\* C24 (as claimed): a frame advances every bullet by its own velocity: a
\* player bullet by 1 in z, a boss bullet by the vector it carries (in
\* thousandths: 0.3 cos, 0.3 sin, 0.5).
C24_BulletsFollowVelocity ==
  [][(last'.kind = "tick" /\ ~gameOver) =>
       \A k \in 1..Len(bullets) :
         \E i \in 1..Len(last'.bulletLog) :
           \E a \in {last'.bulletLog[i].bullet} : \E b \in {bullets[k]} :
             /\ a.id = b.id
             /\ IF b.isEnemyBullet
                THEN /\ 100 * (a.x - b.x) = b.velocity[1]
                     /\ 100 * (a.y - b.y) = b.velocity[2]
                     /\ 100 * (a.z - b.z) = b.velocity[3]
                ELSE a = [b EXCEPT !.z = @ + 10]]_vars

\* C25 (as claimed): a bullet of the boss's own attack leaves the boss's
\* health, the boss, the score and the level as it found them.
C25_BossBulletsSpareBoss ==
  [][(last'.kind = "tick" /\ ~gameOver) =>
       \A i \in 1..Len(last'.bulletLog) :
         \A e \in {last'.bulletLog[i]} :
           e.bullet.isEnemyBullet =>
             /\ e.left.bossHealth = e.found.bossHealth
             /\ e.left.bossLive = e.found.bossLive
             /\ e.left.score = e.found.score
             /\ e.left.level = e.found.level]_vars

\* C26: the removals of a frame take out exactly the entities their tests
\* name.  Every bullet present at the start is processed once, and an
\* iteration removes no bullet but its own and at most one enemy; the
\* bullets left are the others, advanced, in their order, followed by the
\* bullets of an attack.  The enemy loop removes exactly the enemies that
\* reached the player or passed z = 50; the enemies left are the others,
\* advanced once, in their order, followed by the spawned one.
BulletGone(log, id) ==
  \E i \in 1..Len(log) :
    /\ log[i].bullet.id = id
    /\ \/ NearLiveBoss(log[i])
       \/ NearLiveEnemy(log[i])
       \/ log[i].bullet.z > 1000

BulletsKept(bs, log) ==
  SelectSeq([k \in 1..Len(bs) |-> [bs[k] EXCEPT !.z = @ + 10]],
            LAMBDA b : ~BulletGone(log, b.id))

EnemiesKept(es, left, d, p) ==
  SelectSeq([k \in 1..Len(es) |->
               [es[k] EXCEPT !.z = @ + difficultySettings[d].enemySpeed]],
            LAMBDA e : /\ e.id \in left
                       /\ Dist2(e, PlayerPos(p)) >= 3 * 3 * 100
                       /\ e.z <= 500)

C26_RemovalsInPlace ==
  [][(last'.kind = "tick" /\ ~gameOver) =>
       \A log \in {last'.bulletLog} :
       \A kept \in {BulletsKept(bullets, log)} :
       \A stay \in {EnemiesKept(enemies, LeftByBullets(log, enemies),
                                 difficulty, player')} :
         /\ Len(log) = Len(bullets)
         /\ \A k \in 1..Len(bullets) :
              log[Len(bullets) + 1 - k].bullet.id = bullets[k].id
         /\ \A i \in 1..Len(log) :
              /\ log[i].found.bullets \ log[i].left.bullets
                   \subseteq {log[i].bullet.id}
              /\ Cardinality(log[i].found.enemies \ log[i].left.enemies) <= 1
         /\ Len(bullets') = Len(kept) + 5 * last'.attacks
         /\ SubSeq(bullets', 1, Len(kept)) = kept
         /\ Len(bullets) - Len(kept) =
              last'.bossHits + last'.enemyKills + last'.farSplices
         /\ Len(enemies') = Len(stay) + last'.enemySpawns
         /\ SubSeq(enemies', 1, Len(stay)) = stay
         /\ Len(enemies) - Len(stay) =
              last'.enemyKills + last'.contacts + last'.leaks]_vars

\* a frame that removed a bullet and an enemy from the middle of their
\* collections: one bullet of three hit an enemy, another enemy reached the
\* player, and bullets and enemies on both sides stayed
C26_Witness ==
  /\ IsTick
  /\ last.enemyKills = 1
  /\ last.contacts = 1
  /\ Len(bullets) = 2
  /\ Len(enemies) >= 30
  /\ Len(last.bulletLog) = 3
  /\ last.bulletLog[1].left.bullets # last.bulletLog[1].found.bullets

====
